---------------------------- MODULE Spec2Model ----------------------------
(***************************************************************************)
(* Model of the API response quality checker                               *)
(* (src/solutions/api_response_checker/checker.py): the two-phase          *)
(* pipeline check_response = validate_structure, then assess_quality       *)
(* (prompt, backend call, _parse_assessment), then                         *)
(* _calculate_overall_score.                                               *)
(*                                                                         *)
(* Python values are modelled as tagged records, Python exceptions as      *)
(* outcome records [raised, exc, val]; the reply text of the backend is a  *)
(* sequence of tokens on which strip, startswith, split, join and          *)
(* json.loads are computed; the float arithmetic of the score is computed  *)
(* on IEEE-754 binary64 values held as bit sequences.                      *)
(***************************************************************************)
EXTENDS Integers, Sequences, FiniteSets, TLC

(***************************************************************************)
(* Bounds of the model.                                                    *)
(***************************************************************************)
\* longest 'issues' list of a generated backend reply
MaxIssues == 2
\* most whitespace tokens put in front of and behind a generated reply
MaxBlank == 1
\* how far outside 0..100 the scores handed to a direct
\* _calculate_overall_score call reach
OverRange == 12
\* longest list of responses handed to check_consistency
MaxBatch == 2

(***************************************************************************)
(* Python values.  k is the type tag; n the value of an int; s the text of *)
(* a str and x the text an f-string interpolated behind s.                 *)
(***************************************************************************)
PyInt(i) == [k |-> "int", n |-> i, s |-> "", x |-> ""]
PyStr(t) == [k |-> "str", n |-> 0, s |-> t, x |-> ""]
PyFmt(t, arg) == [k |-> "str", n |-> 0, s |-> t, x |-> arg]
PyNone == [k |-> "NoneType", n |-> 0, s |-> "", x |-> ""]

\* a dict: a function from the keys present to their values
EmptyDict == [key \in {} |-> PyNone]
HasKey(d, key) == key \in DOMAIN d
\* d.get(key, default)
DictGet(d, key, default) == IF HasKey(d, key) THEN d[key] ELSE default

(***************************************************************************)
(* Outcomes of a Python call: a returned value or a raised exception.      *)
(***************************************************************************)
NoExc == [type |-> "", msg |-> ""]
Exc(type, msg) == [type |-> type, msg |-> msg]
Returned(v) == [raised |-> FALSE, exc |-> NoExc, val |-> v]
Raised(e) == [raised |-> TRUE, exc |-> e, val |-> PyNone]

(***************************************************************************)
(* The dataclasses.                                                        *)
(***************************************************************************)
\* QualityIssue(severity, description, field=None)
QualityIssue(severity, description, field) ==
    [severity |-> severity, description |-> description, field |-> field]

\* QualityAssessment(score, issues, explanation, recommendations)
QualityAssessment(score, issues, explanation, recommendations) ==
    [score |-> score, issues |-> issues, explanation |-> explanation,
     recommendations |-> recommendations]

\* ValidationResult(is_valid, errors, warnings)
ValidationResult(is_valid, errors, warnings) ==
    [is_valid |-> is_valid, errors |-> errors, warnings |-> warnings]

\* QualityReport(validation, quality, overall_score)
QualityReport(validation, quality, overall_score) ==
    [validation |-> validation, quality |-> quality,
     overall_score |-> overall_score]

(***************************************************************************)
(* JSON documents as json.loads delivers them.  kind is the JSON type; an  *)
(* object carries its dict f; an array, a string and an object carry in    *)
(* items what a Python for loop over them yields (the elements, the        *)
(* characters, the keys).                                                  *)
(***************************************************************************)
JsonDoc(kind, f, items) == [kind |-> kind, f |-> f, items |-> items]
JsonObject(f) == JsonDoc("object", f, <<>>)
JsonNumber == JsonDoc("number", EmptyDict, <<>>)
JsonNull == JsonDoc("null", EmptyDict, <<>>)
JsonChar == JsonDoc("string", EmptyDict, <<>>)
JsonString == JsonDoc("string", EmptyDict, <<JsonChar>>)
JsonArray(items) == JsonDoc("array", EmptyDict, items)
NoDoc == JsonDoc("none", EmptyDict, <<>>)

\* the Python type name of a JSON value, as it appears in error messages
PyTypeName(doc) ==
    CASE doc.kind = "object" -> "dict"
      [] doc.kind = "array" -> "list"
      [] doc.kind = "string" -> "str"
      [] doc.kind = "number" -> "int"
      [] OTHER -> "NoneType"

(***************************************************************************)
(* Reply text: a sequence of tokens.  c is the token's class: "fence" is a *)
(* triple backtick, "tag" a language tag, "nl" a line feed, "sp" a blank,  *)
(* "doc" a complete JSON document written on one line, "doc_head" the      *)
(* first line of a JSON document written over several lines and "doc_tail" *)
(* its last line, "prose" text that is no JSON.                            *)
(***************************************************************************)
Tok(c) == [c |-> c, d |-> NoDoc]
DocTok(c, doc) == [c |-> c, d |-> doc]
IsSpace(t) == t.c \in {"nl", "sp"}

RECURSIVE LStrip(_)
LStrip(text) ==
    IF text # <<>> /\ IsSpace(Head(text)) THEN LStrip(Tail(text)) ELSE text

RECURSIVE RStrip(_)
RStrip(text) ==
    IF text # <<>> /\ IsSpace(text[Len(text)])
    THEN RStrip(SubSeq(text, 1, Len(text) - 1))
    ELSE text

\* str.strip()
Strip(text) == RStrip(LStrip(text))

\* str.startswith('```')
StartsWithFence(text) == text # <<>> /\ Head(text).c = "fence"

\* str.split('\n'): the lines between the line feeds, always at least one
RECURSIVE SplitLines(_, _)
SplitLines(text, cur) ==
    IF text = <<>> THEN <<cur>>
    ELSE IF Head(text).c = "nl"
         THEN <<cur>> \o SplitLines(Tail(text), <<>>)
         ELSE SplitLines(Tail(text), Append(cur, Head(text)))

\* '\n'.join(lines)
RECURSIVE JoinLines(_)
JoinLines(lines) ==
    IF lines = <<>> THEN <<>>
    ELSE IF Len(lines) = 1 THEN lines[1]
    ELSE lines[1] \o <<Tok("nl")>> \o JoinLines(Tail(lines))

\* the last line is dropped only when it is a closing fence
Slice1IfClosed(lines) ==
    IF lines[Len(lines)] = <<Tok("fence")>> /\ Len(lines) > 1
    THEN SubSeq(lines, 2, Len(lines) - 1)
    ELSE SubSeq(lines, 2, Len(lines))

\* lines[1:]: the closing fence line is left in
Slice1KeepLast(lines) == SubSeq(lines, 2, Len(lines))

\* lines[1:-1]: without the first and the last line
Slice1m1(lines) == SubSeq(lines, 2, Len(lines) - 1)

\* the clean-up of _parse_assessment before json.loads
StripFence(text) ==
    LET stripped == Strip(text)
    IN  IF StartsWithFence(stripped)
        THEN JoinLines(Slice1m1(SplitLines(stripped, <<>>)))
        ELSE stripped

\* json.loads(text): white space around one document is skipped; anything
\* else is a JSONDecodeError
JsonLoads(text) ==
    LET body == Strip(text)
    IN  IF body = <<>>
        THEN Raised(Exc("JSONDecodeError", "Expecting value"))
        ELSE IF Len(body) = 1 /\ body[1].c = "doc"
        THEN Returned(body[1].d)
        ELSE IF /\ Len(body) >= 2
                /\ body[1].c = "doc_head"
                /\ body[Len(body)].c = "doc_tail"
                /\ \A i \in 2..(Len(body) - 1) : IsSpace(body[i])
        THEN Returned(body[1].d)
        ELSE IF body[1].c \in {"doc", "doc_head"}
        THEN Raised(Exc("JSONDecodeError", IF body[1].c = "doc"
                                           THEN "Extra data"
                                           ELSE "Expecting ',' delimiter"))
        ELSE Raised(Exc("JSONDecodeError", "Expecting value"))

(***************************************************************************)
(* _parse_assessment.                                                      *)
(***************************************************************************)
\* one step of the list comprehension: QualityIssue(severity=issue['severity'],
\* description=issue['description'], field=issue.get('field'))
BuildIssue(issue) ==
    IF issue.kind # "object"
    THEN Raised(Exc("TypeError", PyTypeName(issue)))
    ELSE IF ~HasKey(issue.f, "severity")
    THEN Raised(Exc("KeyError", "severity"))
    ELSE IF ~HasKey(issue.f, "description")
    THEN Raised(Exc("KeyError", "description"))
    ELSE Returned(QualityIssue(issue.f["severity"], issue.f["description"],
                               DictGet(issue.f, "field", PyNone)))

\* the comprehension over the elements, in order; the first exception ends it
RECURSIVE BuildIssues(_)
BuildIssues(items) ==
    IF items = <<>> THEN Returned(<<>>)
    ELSE LET first == BuildIssue(Head(items))
         IN  IF first.raised THEN first
             ELSE LET rest == BuildIssues(Tail(items))
                  IN  IF rest.raised THEN rest
                      ELSE Returned(<<first.val>> \o rest.val)

\* the sequence backwards
Reverse(items) == [i \in 1..Len(items) |-> items[Len(items) + 1 - i]]

\* the comprehension run over the entries from the last to the first
IssuesOfBackwards(data) ==
    LET given == DictGet(data.f, "issues", JsonArray(<<>>))
    IN  IF given.kind \notin {"array", "string", "object"}
        THEN Raised(Exc("TypeError", PyTypeName(given)))
        ELSE BuildIssues(Reverse(given.items))

\* [... for issue in data.get('issues', [])]
IssuesOf(data) ==
    LET given == DictGet(data.f, "issues", JsonArray(<<>>))
    IN  IF given.kind \notin {"array", "string", "object"}
        THEN Raised(Exc("TypeError", PyTypeName(given)))
        ELSE BuildIssues(given.items)

\* an integer brought into 0..100; any other value as it is
Clamp(score) ==
    IF score.k # "int" THEN score
    ELSE IF score.n > 100 THEN PyInt(100)
    ELSE IF score.n < 0 THEN PyInt(0)
    ELSE score

\* the body of the try block with the score clamped to the declared range
ParseAssessmentBodyClamped(assessment_text) ==
    LET loaded == JsonLoads(StripFence(assessment_text))
        data == loaded.val
    IN  IF loaded.raised THEN loaded
        ELSE IF data.kind # "object"
        THEN Raised(Exc("AttributeError", PyTypeName(data)))
        ELSE LET issues == IssuesOf(data)
             IN  IF issues.raised THEN issues
                 ELSE IF ~HasKey(data.f, "score")
                 THEN Raised(Exc("KeyError", "score"))
                 ELSE IF ~HasKey(data.f, "explanation")
                 THEN Raised(Exc("KeyError", "explanation"))
                 ELSE Returned(QualityAssessment(
                                   Clamp(data.f["score"]), issues.val,
                                   data.f["explanation"],
                                   DictGet(data.f, "recommendations", <<>>)))

\* the body of the try block: what it returns or raises before any handler
ParseAssessmentBody(assessment_text) ==
    LET loaded == JsonLoads(StripFence(assessment_text))
        data == loaded.val
    IN  IF loaded.raised THEN loaded
        ELSE IF data.kind # "object"
        THEN Raised(Exc("AttributeError", PyTypeName(data)))
        ELSE LET issues == IssuesOf(data)
             IN  IF issues.raised THEN issues
                 ELSE IF ~HasKey(data.f, "score")
                 THEN Raised(Exc("KeyError", "score"))
                 ELSE IF ~HasKey(data.f, "explanation")
                 THEN Raised(Exc("KeyError", "explanation"))
                 ELSE Returned(QualityAssessment(
                                   data.f["score"], issues.val,
                                   data.f["explanation"],
                                   DictGet(data.f, "recommendations", <<>>)))

\* the handler answering with the score of a failed assessment
ParseFallbackScoreZero(e) ==
    QualityAssessment(
        PyInt(0),
        <<QualityIssue(PyStr("warning"),
                       PyFmt("Could not parse assessment: ", e.msg), PyNone)>>,
        PyStr("Assessment completed but response format was unexpected"),
        <<PyStr("Review raw assessment output")>>)

\* the value of the except (json.JSONDecodeError, KeyError) handler
ParseFallback(e) ==
    QualityAssessment(
        PyInt(50),
        <<QualityIssue(PyStr("warning"),
                       PyFmt("Could not parse assessment: ", e.msg), PyNone)>>,
        PyStr("Assessment completed but response format was unexpected"),
        <<PyStr("Review raw assessment output")>>)

\* the exception types the handler of _parse_assessment catches
ParseCaught == {"JSONDecodeError", "KeyError"}

\* _parse_assessment(assessment_text)
ParseAssessment(assessment_text) ==
    LET body == ParseAssessmentBody(assessment_text)
    IN  IF body.raised /\ body.exc.type \in ParseCaught
        THEN Returned(ParseFallback(body.exc))
        ELSE body

(***************************************************************************)
(* Python floats: IEEE-754 binary64, round to nearest, ties to even.       *)
(* Natural numbers too wide for 32-bit integers are sequences of bits,     *)
(* least significant first, without leading zeros.  A float is             *)
(* [neg, m, e]: the value (-1)^neg * m * 2^e with m of exactly Precision   *)
(* bits, or m = <<>> for zero.                                             *)
(***************************************************************************)
Precision == 53

RECURSIVE NatToBits(_)
NatToBits(n) == IF n = 0 THEN <<>> ELSE <<n % 2>> \o NatToBits(n \div 2)

RECURSIVE BitsToNat(_)
BitsToNat(b) == IF b = <<>> THEN 0 ELSE Head(b) + 2 * BitsToNat(Tail(b))

RECURSIVE TrimBits(_)
TrimBits(b) ==
    IF b # <<>> /\ b[Len(b)] = 0 THEN TrimBits(SubSeq(b, 1, Len(b) - 1)) ELSE b

Zeros(k) == [i \in 1..k |-> 0]
ShiftLeft(b, k) == IF b = <<>> THEN <<>> ELSE Zeros(k) \o b
BitAt(b, i) == IF i \in 1..Len(b) THEN b[i] ELSE 0

\* a + b + carry
RECURSIVE AddBitsC(_, _, _)
AddBitsC(a, b, carry) ==
    IF a = <<>> /\ b = <<>> THEN (IF carry = 0 THEN <<>> ELSE <<1>>)
    ELSE LET x == BitAt(a, 1) + BitAt(b, 1) + carry
         IN  <<x % 2>> \o AddBitsC(IF a = <<>> THEN <<>> ELSE Tail(a),
                                   IF b = <<>> THEN <<>> ELSE Tail(b),
                                   x \div 2)
AddBits(a, b) == AddBitsC(a, b, 0)

\* a - b - borrow, for a >= b
RECURSIVE SubBitsB(_, _, _)
SubBitsB(a, b, borrow) ==
    IF a = <<>> THEN <<>>
    ELSE LET x == BitAt(a, 1) - BitAt(b, 1) - borrow
         IN  <<x % 2>> \o SubBitsB(Tail(a),
                                   IF b = <<>> THEN <<>> ELSE Tail(b),
                                   IF x < 0 THEN 1 ELSE 0)
SubBits(a, b) == TrimBits(SubBitsB(a, b, 0))

\* a < b, on trimmed bit sequences
LessBits(a, b) ==
    IF Len(a) # Len(b) THEN Len(a) < Len(b)
    ELSE \E i \in 1..Len(a) :
            /\ a[i] < b[i]
            /\ \A j \in (i + 1)..Len(a) : a[j] = b[j]

\* b * n + carry for a small natural n
RECURSIVE MulSmallC(_, _, _)
MulSmallC(b, n, carry) ==
    IF b = <<>> THEN NatToBits(carry)
    ELSE LET x == Head(b) * n + carry
         IN  <<x % 2>> \o MulSmallC(Tail(b), n, x \div 2)
MulSmall(b, n) == TrimBits(MulSmallC(b, n, 0))

FloatZero == [neg |-> FALSE, m |-> <<>>, e |-> 0]

\* the float nearest to (-1)^neg * bits * 2^e: the exact result of an
\* operation, rounded to Precision bits, ties to even
RoundFloat(neg, bits, e) ==
    LET b == TrimBits(bits)
        k == Len(b) - Precision
    IN  IF b = <<>> THEN FloatZero
        ELSE IF k <= 0
        THEN [neg |-> neg, m |-> ShiftLeft(b, -k), e |-> e + k]
        ELSE LET q == SubSeq(b, k + 1, Len(b))
                 half == b[k] = 1
                 sticky == \E i \in 1..(k - 1) : b[i] = 1
                 up == half /\ (sticky \/ q[1] = 1)
                 r == IF up THEN AddBits(q, <<1>>) ELSE q
             IN  IF Len(r) > Precision
                 THEN [neg |-> neg, m |-> Tail(r), e |-> e + k + 1]
                 ELSE [neg |-> neg, m |-> r, e |-> e + k]

\* i * f for an int i and a float f: the int is converted, the product rounded
IntTimesFloat(i, f) ==
    RoundFloat(f.neg # (i < 0), MulSmall(f.m, IF i < 0 THEN -i ELSE i), f.e)

\* f + g
FloatAdd(f, g) ==
    IF f.m = <<>> THEN g
    ELSE IF g.m = <<>> THEN f
    ELSE LET e == IF f.e < g.e THEN f.e ELSE g.e
             a == ShiftLeft(f.m, f.e - e)
             b == ShiftLeft(g.m, g.e - e)
         IN  IF f.neg = g.neg THEN RoundFloat(f.neg, AddBits(a, b), e)
             ELSE IF LessBits(a, b) THEN RoundFloat(g.neg, SubBits(b, a), e)
             ELSE RoundFloat(f.neg, SubBits(a, b), e)

\* int(f): the integral part, truncated toward zero
FloatToInt(f) ==
    LET whole == IF f.m = <<>> THEN 0
                 ELSE IF f.e >= 0 THEN BitsToNat(ShiftLeft(f.m, f.e))
                 ELSE IF -f.e >= Len(f.m) THEN 0
                 ELSE BitsToNat(SubSeq(f.m, 1 - f.e, Len(f.m)))
    IN  IF f.neg THEN -whole ELSE whole

\* the bits of 0x1hhhhhhhhhhhhh for a hexadecimal digit h given as its four
\* bits: the significand of a literal whose binary expansion is periodic
PeriodicSignificand(nibble) ==
    [i \in 1..(Precision - 1) |-> nibble[((i - 1) % 4) + 1]] \o <<1>>

\* the literal 0.3 = 0x1.3333333333333p-2
Float03 == [neg |-> FALSE, m |-> PeriodicSignificand(<<1, 1, 0, 0>>),
            e |-> -2 - (Precision - 1)]
\* the literal 0.7 = 0x1.6666666666666p-1
Float07 == [neg |-> FALSE, m |-> PeriodicSignificand(<<0, 1, 1, 0>>),
            e |-> -1 - (Precision - 1)]

(***************************************************************************)
(* _calculate_overall_score.                                               *)
(***************************************************************************)
\* x * 0.3 or x * 0.7 for a Python value x: a TypeError unless x is a number
TimesFloat(x, f) ==
    IF x.k = "int"
    THEN Returned(IntTimesFloat(x.n, f))
    ELSE Raised(Exc("TypeError", x.k))

\* _calculate_overall_score(validation, quality)
CalculateOverallScore(validation, quality) ==
    LET structure_score == IF validation.is_valid THEN 100 ELSE 0
        weighted == TimesFloat(quality.score, Float07)
    IN  IF weighted.raised THEN weighted
        ELSE Returned(FloatToInt(FloatAdd(IntTimesFloat(structure_score, Float03),
                                          weighted.val)))

(***************************************************************************)
(* validate_structure, over a schema-validation engine that reports the    *)
(* first violation it finds.                                               *)
(***************************************************************************)
Fields == <<"id", "name">>
FieldSet == {Fields[i] : i \in 1..Len(Fields)}
JsonTypes == {"integer", "string"}

\* an API response: the fields it holds, each with the JSON type of its value
Responses == UNION {[present -> JsonTypes] : present \in SUBSET FieldSet}

\* the 'properties' of the schemas the tests and the example use
Properties == [f \in FieldSet |-> IF f = "id" THEN "integer" ELSE "string"]

\* a schema: the required fields, the property types, and whether the schema
\* is itself a valid JSON schema
Schemas == [required : SUBSET FieldSet, properties : {Properties},
            wellformed : BOOLEAN]

\* the violations of a schema by an instance, 'required' before 'properties'
RECURSIVE MissingFrom(_, _, _)
MissingFrom(i, instance, schema) ==
    IF i > Len(Fields) THEN <<>>
    ELSE (IF Fields[i] \in schema.required /\ Fields[i] \notin DOMAIN instance
          THEN <<Fields[i] \o " is a required property">>
          ELSE <<>>) \o MissingFrom(i + 1, instance, schema)

RECURSIVE MistypedFrom(_, _, _)
MistypedFrom(i, instance, schema) ==
    IF i > Len(Fields) THEN <<>>
    ELSE (IF /\ Fields[i] \in DOMAIN instance
             /\ instance[Fields[i]] # schema.properties[Fields[i]]
          THEN <<Fields[i] \o " is not of type " \o schema.properties[Fields[i]]>>
          ELSE <<>>) \o MistypedFrom(i + 1, instance, schema)

Violations(instance, schema) ==
    MissingFrom(1, instance, schema) \o MistypedFrom(1, instance, schema)

\* jsonschema.validate(instance, schema): checks the schema, then raises the
\* first violation
EngineValidate(instance, schema) ==
    IF ~schema.wellformed
    THEN Raised(Exc("SchemaError", "schema is not valid"))
    ELSE IF Violations(instance, schema) # <<>>
    THEN Raised(Exc("ValidationError", Violations(instance, schema)[1]))
    ELSE Returned(PyNone)

\* the exception types the handler of validate_structure catches
ValidateCaught == {"ValidationError"}

\* the handler appends the message and the result is still reported valid
ValidateStructureStaysValid(response, schema) ==
    LET outcome == EngineValidate(response, schema)
    IN  IF outcome.raised /\ outcome.exc.type \in ValidateCaught
        THEN Returned(ValidationResult(
                          TRUE,
                          <<PyFmt("Schema validation failed: ", outcome.exc.msg)>>,
                          <<>>))
        ELSE IF outcome.raised THEN outcome
        ELSE Returned(ValidationResult(TRUE, <<>>, <<>>))

\* one message for every violation of the schema
ValidateStructureCollectsAll(response, schema) ==
    LET outcome == EngineValidate(response, schema)
        found == Violations(response, schema)
    IN  IF outcome.raised /\ outcome.exc.type \in ValidateCaught
        THEN Returned(ValidationResult(
                          FALSE,
                          [i \in 1..Len(found) |->
                              PyFmt("Schema validation failed: ", found[i])],
                          <<>>))
        ELSE IF outcome.raised THEN outcome
        ELSE Returned(ValidationResult(TRUE, <<>>, <<>>))

\* validate_structure(response, schema)
ValidateStructure(response, schema) ==
    LET outcome == EngineValidate(response, schema)
    IN  IF outcome.raised /\ outcome.exc.type \in ValidateCaught
        THEN Returned(ValidationResult(
                          FALSE,
                          <<PyFmt("Schema validation failed: ", outcome.exc.msg)>>,
                          <<>>))
        ELSE IF outcome.raised THEN outcome
        ELSE Returned(ValidationResult(TRUE, <<>>, <<>>))

(***************************************************************************)
(* assess_quality: the handler around the backend call and the parser.     *)
(***************************************************************************)
\* _build_assessment_prompt(response, schema): both embedded in the template
BuildAssessmentPrompt(response, schema) ==
    [template |-> "assessment", response |-> response, schema |-> schema]

\* the score-50 warning of the parser in the place of the backend fallback
BackendFallbackAsWarning(e) ==
    QualityAssessment(
        PyInt(50),
        <<QualityIssue(PyStr("warning"),
                       PyFmt("Assessment failed: ", e.msg), PyNone)>>,
        PyStr("Unable to complete quality assessment"),
        <<PyStr("Verify API connectivity and try again")>>)

\* the value of the except Exception handler
BackendFallback(e) ==
    QualityAssessment(
        PyInt(0),
        <<QualityIssue(PyStr("critical"),
                       PyFmt("Assessment failed: ", e.msg), PyNone)>>,
        PyStr("Unable to complete quality assessment"),
        <<PyStr("Verify API connectivity and try again")>>)

\* what the backend call delivers: an exception, or a message whose content
\* is a list of text blocks
BackendError(e) == [ok |-> FALSE, exc |-> e, content |-> <<>>]
BackendMessage(content) == [ok |-> TRUE, exc |-> NoExc, content |-> content]

\* the try block of assess_quality from the backend's outcome on:
\* message.content[0].text, then _parse_assessment
AssessTry(outcome) ==
    IF ~outcome.ok THEN Raised(outcome.exc)
    ELSE IF outcome.content = <<>>
    THEN Raised(Exc("IndexError", "list index out of range"))
    ELSE ParseAssessment(outcome.content[1])

\* a handler that names the API's errors instead of Exception
AssessCatchesApiErrors(e) ==
    e.type \in {"APIConnectionError", "AuthenticationError"}

\* whether the except Exception handler of assess_quality catches e
AssessCatches(e) == TRUE

\* assess_quality from the backend's outcome on
AssessOutcome(outcome) ==
    LET tried == AssessTry(outcome)
    IN  IF tried.raised /\ AssessCatches(tried.exc)
        THEN Returned(BackendFallback(tried.exc))
        ELSE tried

\* the assessment check_response makes up when validation failed
StructureFailedAssessment ==
    QualityAssessment(
        PyInt(0),
        <<QualityIssue(PyStr("critical"), PyStr("Structure validation failed"),
                       PyNone)>>,
        PyStr("Response does not meet basic structure requirements"),
        <<PyStr("Fix schema validation errors before quality assessment")>>)

(***************************************************************************)
(* The inputs the environment chooses from: backend replies, scores.       *)
(***************************************************************************)
\* the dict with the given keys of a dict
Restrict(d, keys) == [key \in keys |-> d[key]]

\* issue entries a reply can hold: well formed with and without 'field', an
\* unknown severity, a null severity, a missing key, and no object at all
FullIssue(severity, description, field) ==
    JsonObject([severity |-> severity, description |-> description,
                field |-> field])
IssueEntries ==
    { FullIssue(PyStr("critical"), PyStr("email is empty"), PyStr("email")),
      JsonObject(Restrict(FullIssue(PyStr("info"), PyStr("id is large"),
                                    PyNone).f,
                          {"severity", "description"})),
      FullIssue(PyStr("blocker"), PyStr("name is a placeholder"), PyNone),
      FullIssue(PyNone, PyStr("severity is null"), PyStr("name")),
      JsonObject(Restrict(FullIssue(PyNone, PyStr("no severity"), PyNone).f,
                          {"description"})),
      JsonObject(Restrict(FullIssue(PyStr("warning"), PyNone, PyNone).f,
                          {"severity"})),
      JsonNumber }

\* the sequences over S of length at most n
SeqsUpTo(S, n) == UNION {[1..len -> S] : len \in 0..n}

\* values of 'issues': lists of entries, and values that are no list
IssuesValues ==
    {JsonArray(items) : items \in SeqsUpTo(IssueEntries, MaxIssues)}
    \cup {JsonNumber, JsonNull, JsonString,
          JsonDoc("object", [note |-> PyStr("none")], <<JsonChar>>)}

\* values of 'score': in range, out of range, and no number
ReplyScores == {PyInt(-5), PyInt(0), PyInt(85), PyInt(90), PyInt(100),
                PyInt(150), PyStr("high"), PyNone}

\* a reply object with every key, and the objects with some keys left out
FullReply(score, issues) ==
    [score |-> score, explanation |-> PyStr("ok"), issues |-> issues,
     recommendations |-> <<PyStr("populate email")>>]
ReplyKeys == {"score", "explanation", "issues", "recommendations"}

ReplyObjects ==
    {JsonObject(Restrict(FullReply(PyInt(90), issues), keys)) :
        issues \in IssuesValues,
        keys \in {ReplyKeys, ReplyKeys \ {"recommendations"}, {"explanation", "issues"}}}
    \cup
    {JsonObject(Restrict(FullReply(score, issues), keys)) :
        score \in ReplyScores,
        issues \in {JsonArray(<<>>)}
                   \cup {JsonArray(<<entry>>) : entry \in IssueEntries},
        keys \in {k \in SUBSET ReplyKeys : "issues" \in k}}
    \cup
    {JsonObject(Restrict(FullReply(score, JsonNull), keys)) :
        score \in ReplyScores, keys \in SUBSET (ReplyKeys \ {"issues"})}

\* every JSON document a reply can hold
ReplyDocs == ReplyObjects \cup {JsonNumber, JsonNull, JsonString, JsonArray(<<>>)}

\* the documents that are also sent wrapped and padded
WrappedDocs ==
    { JsonObject([score |-> PyInt(90), explanation |-> PyStr("ok")]),
      JsonObject(FullReply(PyInt(150), JsonArray(<<>>))),
      JsonObject([explanation |-> PyStr("ok")]),
      JsonObject(Restrict(FullReply(PyInt(85), JsonNumber),
                          {"score", "explanation", "issues"})),
      JsonArray(<<>>) }

\* a document on one line, and broken over lines
OneLine(doc) == <<DocTok("doc", doc)>>
ManyLines(doc) == <<DocTok("doc_head", doc), Tok("nl"), Tok("sp"), Tok("doc_tail")>>
Bodies(doc) == {OneLine(doc), ManyLines(doc)}

\* runs of white space
Blanks == SeqsUpTo({Tok("nl"), Tok("sp")}, MaxBlank)

\* opening fence lines, with and without a language tag
FenceOpen == {<<Tok("fence")>>, <<Tok("fence"), Tok("tag")>>}

\* a body between an opening and a closing fence line
Fenced(open, body) == open \o <<Tok("nl")>> \o body \o <<Tok("nl"), Tok("fence")>>

ReplyTexts ==
    {OneLine(doc) : doc \in ReplyDocs}
    \cup {before \o body \o after :
            before \in Blanks, after \in Blanks,
            body \in UNION {Bodies(doc) : doc \in WrappedDocs}}
    \cup {before \o Fenced(open, body) \o after :
            before \in Blanks, after \in Blanks, open \in FenceOpen,
            body \in UNION {Bodies(doc) : doc \in WrappedDocs}}
    \cup {open \o <<Tok("nl")>> \o body :
            open \in FenceOpen,
            body \in UNION {Bodies(doc) : doc \in WrappedDocs}}
    \cup {open \o OneLine(doc) \o <<Tok("fence")>> :
            open \in FenceOpen, doc \in WrappedDocs}
    \cup {<<>>, <<Tok("prose")>>, <<Tok("fence")>>,
          <<Tok("prose"), Tok("nl")>> \o OneLine(JsonObject(FullReply(PyInt(90), JsonArray(<<>>)))),
          OneLine(JsonNumber) \o <<Tok("sp")>> \o OneLine(JsonNumber),
          Fenced(<<Tok("fence"), Tok("tag")>>, <<Tok("prose")>>)}

\* what the backend call can deliver
BackendOutcomes ==
    {BackendError(Exc("APIConnectionError", "Connection error.")),
     BackendError(Exc("AuthenticationError", "invalid x-api-key")),
     BackendMessage(<<>>)}
    \cup {BackendMessage(<<text>>) : text \in ReplyTexts}

\* the quality.score values of a direct _calculate_overall_score call
DirectScores ==
    {PyInt(n) : n \in (0 - OverRange)..(100 + OverRange)}
    \cup {PyStr("high"), PyNone}

(***************************************************************************)
(* __init__ and check_consistency.                                         *)
(***************************************************************************)
\* bool(v): None, "" and 0 are falsy
Truthy(v) ==
    CASE v.k = "NoneType" -> FALSE
      [] v.k = "int" -> v.n # 0
      [] v.k = "str" -> (v.s # "" \/ v.x # "")
      [] OTHER -> TRUE

\* a or b
PyOr(a, b) == IF Truthy(a) THEN a ELSE b

\* the api_key argument of the constructor, and what
\* os.getenv('ANTHROPIC_API_KEY') delivers: absent, empty or a key
ApiKeyArgs == {PyNone, PyStr(""), PyStr("sk-ant-arg")}
EnvValues == {PyNone, PyStr(""), PyStr("sk-ant-env")}

\* __init__ without the test of self.api_key
NewCheckerUnchecked(api_key, env) ==
    Returned([api_key |-> PyOr(api_key, env),
              client |-> [api_key |-> PyOr(api_key, env)],
              model |-> "claude-sonnet-4-20250514"])

\* ResponseQualityChecker(api_key) with the environment holding env: the
\* fields of the new instance, or the ValueError
NewChecker(api_key, env) ==
    LET key == PyOr(api_key, env)
    IN  IF ~Truthy(key)
        THEN Raised(Exc("ValueError",
                 "ANTHROPIC_API_KEY must be set in environment or passed to constructor"))
        ELSE Returned([api_key |-> key,
                       client |-> [api_key |-> key],
                       model |-> "claude-sonnet-4-20250514"])

\* check_consistency with a first implementation in the place of the raise
CheckConsistencyImplemented(responses, schema) ==
    Returned(QualityAssessment(PyInt(100), <<>>, PyStr("consistent"), <<>>))

\* check_consistency(responses, schema)
CheckConsistency(responses, schema) ==
    Raised(Exc("NotImplementedError", "Batch consistency checking coming soon"))

\* the lists of responses handed to check_consistency
ResponseLists == SeqsUpTo(Responses, MaxBatch)

(***************************************************************************)
(* QualityReport.summary.  The text is kept as the list 'lines' that the   *)
(* method joins with newlines; a line is its fixed text and the values     *)
(* formatted into it.                                                      *)
(***************************************************************************)
Line(text, values) == [text |-> text, values |-> values]

\* str.upper() on the strings that occur as a severity
Upper(t) ==
    CASE t = "critical" -> "CRITICAL"
      [] t = "warning" -> "WARNING"
      [] t = "info" -> "INFO"
      [] t = "blocker" -> "BLOCKER"
      [] OTHER -> t

\* issue.severity.upper(): only a str has the method
SeverityUpper(severity) ==
    IF severity.k = "str"
    THEN Returned(PyStr(Upper(severity.s)))
    ELSE Raised(Exc("AttributeError", severity.k \o " has no attribute upper"))

\* the line of one issue: f"  [{issue.severity.upper()}]{field_info} {issue.description}"
IssueLine(issue) ==
    LET field_info == IF Truthy(issue.field) THEN <<issue.field>> ELSE <<>>
        upper == SeverityUpper(issue.severity)
    IN  IF upper.raised THEN upper
        ELSE Returned(Line("issue", <<upper.val>> \o field_info
                                    \o <<issue.description>>))

\* the loop over self.quality.issues; the first exception ends it
RECURSIVE IssueLines(_)
IssueLines(issues) ==
    IF issues = <<>> THEN Returned(<<>>)
    ELSE LET first == IssueLine(Head(issues))
         IN  IF first.raised THEN first
             ELSE LET rest == IssueLines(Tail(issues))
                  IN  IF rest.raised THEN rest
                      ELSE Returned(<<first.val>> \o rest.val)

\* one bullet line per element
Bullets(items) == [i \in 1..Len(items) |-> Line("bullet", <<items[i]>>)]
\* one numbered line per element, counted from 1
Numbered(items) == [i \in 1..Len(items) |-> Line("numbered", <<PyInt(i), items[i]>>)]

\* if self.quality.issues: the header with the count, then the issue lines
IssuesSection(issues) ==
    IF issues = <<>> THEN Returned(<<>>)
    ELSE LET body == IssueLines(issues)
         IN  IF body.raised THEN body
             ELSE Returned(<<Line("Issues Found", <<PyInt(Len(issues))>>)>>
                           \o body.val)

\* report.summary()
Summary(report) ==
    LET head == << Line("rule", <<>>),
                   Line("API Response Quality Report", <<>>),
                   Line("rule", <<>>),
                   Line("Overall Score", <<report.overall_score>>),
                   Line("Structure Validation",
                        <<IF report.validation.is_valid
                          THEN PyStr("PASSED") ELSE PyStr("FAILED")>>) >>
        errors == IF report.validation.errors # <<>>
                  THEN <<Line("Validation Errors:", <<>>)>>
                       \o Bullets(report.validation.errors)
                  ELSE <<>>
        warnings == IF report.validation.warnings # <<>>
                    THEN <<Line("Warnings:", <<>>)>>
                         \o Bullets(report.validation.warnings)
                    ELSE <<>>
        assessed == << Line("Quality Assessment Score", <<report.quality.score>>),
                       Line("explanation", <<report.quality.explanation>>) >>
        issues == IssuesSection(report.quality.issues)
        recommendations ==
            IF report.quality.recommendations # <<>>
            THEN <<Line("Recommendations:", <<>>)>>
                 \o Numbered(report.quality.recommendations)
            ELSE <<>>
    IN  IF issues.raised THEN issues
        ELSE Returned(head \o errors \o warnings \o assessed \o issues.val
                      \o recommendations \o <<Line("rule", <<>>)>>)

\* reports a client builds by hand: with warnings, with and without errors,
\* issues and recommendations
DirectReports ==
    { QualityReport(
          ValidationResult(errors = <<>>, errors, warnings),
          QualityAssessment(PyInt(85), issues, PyStr("Good quality"), recs),
          PyInt(89)) :
        errors \in {<<>>, <<PyStr("Schema error")>>},
        warnings \in {<<>>, <<PyStr("deprecated field")>>},
        issues \in {<<>>,
                    <<QualityIssue(PyStr("warning"), PyStr("name is test"),
                                   PyStr("name")),
                      QualityIssue(PyStr("info"), PyStr("id is large"), PyNone)>>},
        recs \in {<<>>, <<PyStr("use real data"), PyStr("populate email")>>} }

(***************************************************************************)
(* The checker as a state machine.  A client builds a checker and calls    *)
(* one method at a time; the method runs to the backend call, the backend  *)
(* delivers its outcome, and the method runs on to its return or to the    *)
(* exception it lets escape.                                               *)
(***************************************************************************)
VARIABLES
    checker,        \* the fields of the instance, Unset before it is built
    op,             \* the method the client called, "" when none is running
    pc,             \* where the running call stands
    args,           \* the arguments of the call
    validation,     \* check_response: the local 'validation'
    prompt,         \* assess_quality: the local 'prompt'
    message,        \* assess_quality: what the backend call delivered
    quality,        \* check_response: the local 'quality'
    backend_calls,  \* client.messages.create invocations during this call
    trace,          \* the steps this call has taken, in order
    result          \* what the call returned or raised

vars == <<checker, op, pc, args, validation, prompt, message, quality,
          backend_calls, trace, result>>

Unset == PyNone

Init ==
    /\ checker = Unset
    /\ op = ""
    /\ pc = "idle"
    /\ args = Unset
    /\ validation = Unset
    /\ prompt = Unset
    /\ message = Unset
    /\ quality = Unset
    /\ backend_calls = 0
    /\ trace = <<>>
    /\ result = Unset

\* the client can call a method: it holds a checker and no call is running
Ready == pc = "idle" /\ checker # Unset

\* checker = ResponseQualityChecker(api_key)
Construct ==
    /\ pc = "idle"
    /\ checker = Unset
    /\ \E api_key \in ApiKeyArgs, env \in EnvValues :
          /\ args' = [api_key |-> api_key, env |-> env]
          /\ result' = NewChecker(api_key, env)
    /\ checker' = IF result'.raised THEN Unset ELSE result'.val
    /\ op' = "__init__"
    /\ pc' = IF result'.raised THEN "raised" ELSE "done"
    /\ UNCHANGED <<validation, prompt, message, quality, backend_calls, trace>>

\* checker.check_response(response, schema)
CallCheckResponse ==
    /\ Ready
    /\ \E response \in Responses, schema \in Schemas :
          args' = [response |-> response, schema |-> schema]
    /\ op' = "check_response"
    /\ pc' = "validate"
    /\ UNCHANGED <<checker, validation, prompt, message, quality,
                   backend_calls, trace, result>>

\* checker.validate_structure(response, schema)
CallValidateStructure ==
    /\ Ready
    /\ \E response \in Responses, schema \in Schemas :
          args' = [response |-> response, schema |-> schema]
    /\ op' = "validate_structure"
    /\ pc' = "validate"
    /\ UNCHANGED <<checker, validation, prompt, message, quality,
                   backend_calls, trace, result>>

\* checker.assess_quality(response, schema)
CallAssessQuality ==
    /\ Ready
    /\ \E response \in Responses, schema \in Schemas :
          args' = [response |-> response, schema |-> schema]
    /\ op' = "assess_quality"
    /\ pc' = "prompt"
    /\ UNCHANGED <<checker, validation, prompt, message, quality,
                   backend_calls, trace, result>>

\* checker.check_consistency(responses, schema)
CallCheckConsistency ==
    /\ Ready
    /\ \E responses \in ResponseLists, schema \in Schemas :
          args' = [responses |-> responses, schema |-> schema]
    /\ op' = "check_consistency"
    /\ pc' = "consistency"
    /\ UNCHANGED <<checker, validation, prompt, message, quality,
                   backend_calls, trace, result>>

\* checker._parse_assessment(assessment_text)
CallParseAssessment ==
    /\ Ready
    /\ \E text \in ReplyTexts : args' = [assessment_text |-> text]
    /\ op' = "_parse_assessment"
    /\ pc' = "parse"
    /\ UNCHANGED <<checker, validation, prompt, message, quality,
                   backend_calls, trace, result>>

\* checker._calculate_overall_score(validation, quality), as the tests call it
CallCalculateOverallScore ==
    /\ Ready
    /\ \E is_valid \in BOOLEAN, score \in DirectScores :
          /\ validation' = ValidationResult(
                               is_valid,
                               IF is_valid THEN <<>> ELSE <<PyStr("Schema error")>>,
                               <<>>)
          /\ quality' = QualityAssessment(score, <<>>, PyStr("Good quality"), <<>>)
    /\ op' = "_calculate_overall_score"
    /\ pc' = "score"
    /\ args' = Unset
    /\ UNCHANGED <<checker, prompt, message, backend_calls, trace, result>>

\* report.summary(): on a report built by hand, or on the report that
\* check_response has just returned
CallSummary ==
    /\ \/ /\ pc = "idle"
          /\ \E report \in DirectReports : args' = [report |-> report]
       \/ /\ op = "check_response" /\ pc = "done"
          /\ args' = [report |-> result.val]
    /\ op' = "summary"
    /\ pc' = "summary"
    /\ validation' = Unset
    /\ prompt' = Unset
    /\ message' = Unset
    /\ quality' = Unset
    /\ backend_calls' = 0
    /\ trace' = <<>>
    /\ result' = Unset
    /\ UNCHANGED checker

\* the assessment is asked for before the structure is validated
ValidateSkipped ==
    /\ pc = "validate"
    /\ validation' = ValidationResult(TRUE, <<>>, <<>>)
    /\ pc' = "prompt"
    /\ UNCHANGED <<checker, op, args, prompt, message, quality, backend_calls,
                   trace, result>>

\* phase 1 without the branch: the assessment is asked for in either case
ValidateWithoutBranch ==
    /\ pc = "validate"
    /\ LET checked == ValidateStructure(args.response, args.schema)
       IN  IF checked.raised \/ op = "validate_structure"
           THEN /\ result' = checked
                /\ pc' = IF checked.raised THEN "raised" ELSE "done"
                /\ UNCHANGED validation
           ELSE /\ validation' = checked.val
                /\ pc' = "prompt"
                /\ UNCHANGED result
    /\ trace' = Append(trace, "validate")
    /\ UNCHANGED <<checker, op, args, prompt, message, quality, backend_calls>>

\* validate_structure runs: as a call of its own, or as phase 1 of
\* check_response, followed by the branch on validation.is_valid
Validate ==
    /\ pc = "validate"
    /\ LET checked == ValidateStructure(args.response, args.schema)
       IN  IF checked.raised \/ op = "validate_structure"
           THEN /\ result' = checked
                /\ pc' = IF checked.raised THEN "raised" ELSE "done"
                /\ trace' = Append(trace, "validate")
                /\ UNCHANGED <<validation, quality>>
           ELSE /\ validation' = checked.val
                /\ IF checked.val.is_valid
                   THEN /\ pc' = "prompt"
                        /\ trace' = Append(trace, "validate")
                        /\ UNCHANGED quality
                   ELSE /\ pc' = "score"
                        /\ trace' = trace \o <<"validate", "synthetic_quality">>
                        /\ quality' = StructureFailedAssessment
                /\ UNCHANGED result
    /\ UNCHANGED <<checker, op, args, prompt, message, backend_calls>>

\* assess_quality up to the backend call: the prompt is built, the request sent
SendRequest ==
    /\ pc = "prompt"
    /\ prompt' = BuildAssessmentPrompt(args.response, args.schema)
    /\ backend_calls' = backend_calls + 1
    /\ trace' = trace \o <<"prompt", "backend_call">>
    /\ pc' = "backend"
    /\ UNCHANGED <<checker, op, args, validation, message, quality, result>>

\* the steps of assess_quality after the backend call ended with outcome
StepsAfter(outcome) ==
    (IF outcome.ok THEN <<"backend_reply">> ELSE <<"backend_error">>)
    \o (IF outcome.ok /\ outcome.content # <<>> THEN <<"parse">> ELSE <<>>)
    \o <<"quality">>

\* the backend call ends and is made again, once, when it raised
BackendReturnsWithRetry ==
    /\ pc = "backend"
    /\ \E outcome \in BackendOutcomes :
          /\ message' = outcome
          /\ trace' = trace \o StepsAfter(outcome)
          /\ LET assessed == AssessOutcome(outcome)
             IN  IF ~outcome.ok /\ backend_calls < 2
                 THEN pc' = "prompt" /\ UNCHANGED <<quality, result>>
                 ELSE IF assessed.raised
                 THEN result' = assessed /\ pc' = "raised" /\ UNCHANGED quality
                 ELSE IF op = "assess_quality"
                 THEN result' = assessed /\ pc' = "done" /\ UNCHANGED quality
                 ELSE quality' = assessed.val /\ pc' = "score" /\ UNCHANGED result
    /\ UNCHANGED <<checker, op, args, validation, prompt, backend_calls>>

\* the backend call ends, and assess_quality runs to its end: the reply is
\* parsed or the handler makes up the fallback
BackendReturns ==
    /\ pc = "backend"
    /\ \E outcome \in BackendOutcomes :
          /\ message' = outcome
          /\ trace' = trace \o StepsAfter(outcome)
          /\ LET assessed == AssessOutcome(outcome)
             IN  IF assessed.raised
                 THEN result' = assessed /\ pc' = "raised" /\ UNCHANGED quality
                 ELSE IF op = "assess_quality"
                 THEN result' = assessed /\ pc' = "done" /\ UNCHANGED quality
                 ELSE quality' = assessed.val /\ pc' = "score" /\ UNCHANGED result
    /\ UNCHANGED <<checker, op, args, validation, prompt, backend_calls>>

\* a direct _parse_assessment call runs
Parse ==
    /\ pc = "parse"
    /\ result' = ParseAssessment(args.assessment_text)
    /\ pc' = IF result'.raised THEN "raised" ELSE "done"
    /\ trace' = Append(trace, "parse")
    /\ UNCHANGED <<checker, op, args, validation, prompt, message, quality,
                   backend_calls>>

\* the report is built around a quality whose score is brought into 0..100
ScoreReportsClamped ==
    /\ pc = "score"
    /\ LET overall == CalculateOverallScore(validation, quality)
           clamped == IF quality.score.n > 100 THEN PyInt(100)
                      ELSE IF quality.score.n < 0 THEN PyInt(0)
                      ELSE quality.score
       IN  IF overall.raised
           THEN result' = overall /\ pc' = "raised"
           ELSE /\ pc' = "done"
                /\ result' = Returned(IF op = "check_response"
                                      THEN QualityReport(
                                               validation,
                                               [quality EXCEPT !.score = clamped],
                                               overall.val)
                                      ELSE overall.val)
    /\ trace' = Append(trace, "score")
    /\ UNCHANGED <<checker, op, args, validation, prompt, message, quality,
                   backend_calls>>

\* _calculate_overall_score runs; check_response builds its report around it
Score ==
    /\ pc = "score"
    /\ LET overall == CalculateOverallScore(validation, quality)
       IN  IF overall.raised
           THEN result' = overall /\ pc' = "raised"
           ELSE /\ pc' = "done"
                /\ result' = Returned(IF op = "check_response"
                                      THEN QualityReport(validation, quality,
                                                         overall.val)
                                      ELSE overall.val)
    /\ trace' = Append(trace, "score")
    /\ UNCHANGED <<checker, op, args, validation, prompt, message, quality,
                   backend_calls>>

\* check_consistency runs
Consistency ==
    /\ pc = "consistency"
    /\ result' = CheckConsistency(args.responses, args.schema)
    /\ pc' = IF result'.raised THEN "raised" ELSE "done"
    /\ UNCHANGED <<checker, op, args, validation, prompt, message, quality,
                   backend_calls, trace>>

\* summary runs
Summarize ==
    /\ pc = "summary"
    /\ result' = Summary(args.report)
    /\ pc' = IF result'.raised THEN "raised" ELSE "done"
    /\ UNCHANGED <<checker, op, args, validation, prompt, message, quality,
                   backend_calls, trace>>

\* the client takes the result; the locals of the call are gone
Return ==
    /\ pc \in {"done", "raised"}
    /\ op' = ""
    /\ pc' = "idle"
    /\ args' = Unset
    /\ validation' = Unset
    /\ prompt' = Unset
    /\ message' = Unset
    /\ quality' = Unset
    /\ backend_calls' = 0
    /\ trace' = <<>>
    /\ result' = Unset
    /\ UNCHANGED checker

Next ==
    \/ Construct
    \/ CallCheckResponse
    \/ CallValidateStructure
    \/ CallAssessQuality
    \/ CallCheckConsistency
    \/ CallParseAssessment
    \/ CallCalculateOverallScore
    \/ CallSummary
    \/ Validate
    \/ SendRequest
    \/ BackendReturns
    \/ Parse
    \/ Score
    \/ Consistency
    \/ Summarize
    \/ Return

Spec == Init /\ [][Next]_vars

(***************************************************************************)
(* Two clients call check_response on one checker at the same time.  The   *)
(* locals of a call live in the frame of the call, so every variable of a  *)
(* call is held once per thread; the checker is the one object the threads *)
(* share.  trace is the history of the calls: who called and who returned, *)
(* in order.                                                               *)
(***************************************************************************)
Threads == {"t1", "t2"}

\* the checker both threads hold
SharedChecker == NewChecker(PyStr("sk-ant-arg"), PyNone).val

\* the arguments of the concurrent calls: a response that meets the schema
\* and one that does not, a schema that is valid and one that is not
ConcCalls ==
    [response : {[f \in FieldSet |-> Properties[f]], [f \in {} |-> "string"]},
     schema : {sch \in Schemas : sch.required = FieldSet}]

\* what the backend delivers to them: an error, a good reply, prose, and a
\* reply whose score is no number
ConcOutcomes ==
    {BackendError(Exc("APIConnectionError", "Connection error.")),
     BackendMessage(<<OneLine(JsonObject([score |-> PyInt(90),
                                          explanation |-> PyStr("ok")]))>>),
     BackendMessage(<<<<Tok("prose")>>>>),
     BackendMessage(<<OneLine(JsonObject([score |-> PyStr("high"),
                                          explanation |-> PyStr("ok")]))>>)}

Event(t, event) == [thread |-> t, event |-> event]

ConcInit ==
    /\ checker = SharedChecker
    /\ op = [t \in Threads |-> ""]
    /\ pc = [t \in Threads |-> "idle"]
    /\ args = [t \in Threads |-> Unset]
    /\ validation = [t \in Threads |-> Unset]
    /\ prompt = [t \in Threads |-> Unset]
    /\ message = [t \in Threads |-> Unset]
    /\ quality = [t \in Threads |-> Unset]
    /\ backend_calls = [t \in Threads |-> 0]
    /\ trace = <<>>
    /\ result = [t \in Threads |-> Unset]

\* thread t calls checker.check_response(response, schema)
ConcCall(t) ==
    /\ pc[t] = "idle"
    /\ \E call \in ConcCalls : args' = [args EXCEPT ![t] = call]
    /\ op' = [op EXCEPT ![t] = "check_response"]
    /\ pc' = [pc EXCEPT ![t] = "validate"]
    /\ trace' = Append(trace, Event(t, "call"))
    /\ UNCHANGED <<checker, validation, prompt, message, quality,
                   backend_calls, result>>

\* phase 1 with its result kept in a field of the checker, which every
\* running call reads
ConcValidateShared(t) ==
    /\ pc[t] = "validate"
    /\ LET checked == ValidateStructure(args[t].response, args[t].schema)
       IN  IF checked.raised
           THEN /\ result' = [result EXCEPT ![t] = checked]
                /\ pc' = [pc EXCEPT ![t] = "raised"]
                /\ trace' = Append(trace, Event(t, "return"))
                /\ UNCHANGED <<validation, quality>>
           ELSE /\ validation' = [u \in Threads |->
                                     IF u = t \/ validation[u] # Unset
                                     THEN checked.val ELSE validation[u]]
                /\ IF checked.val.is_valid
                   THEN /\ pc' = [pc EXCEPT ![t] = "prompt"]
                        /\ UNCHANGED quality
                   ELSE /\ pc' = [pc EXCEPT ![t] = "score"]
                        /\ quality' = [quality EXCEPT
                                          ![t] = StructureFailedAssessment]
                /\ UNCHANGED <<result, trace>>
    /\ UNCHANGED <<checker, op, args, prompt, message, backend_calls>>

\* phase 1 of thread t's call and the branch on validation.is_valid
ConcValidate(t) ==
    /\ pc[t] = "validate"
    /\ LET checked == ValidateStructure(args[t].response, args[t].schema)
       IN  IF checked.raised
           THEN /\ result' = [result EXCEPT ![t] = checked]
                /\ pc' = [pc EXCEPT ![t] = "raised"]
                /\ trace' = Append(trace, Event(t, "return"))
                /\ UNCHANGED <<validation, quality>>
           ELSE /\ validation' = [validation EXCEPT ![t] = checked.val]
                /\ IF checked.val.is_valid
                   THEN /\ pc' = [pc EXCEPT ![t] = "prompt"]
                        /\ UNCHANGED quality
                   ELSE /\ pc' = [pc EXCEPT ![t] = "score"]
                        /\ quality' = [quality EXCEPT
                                          ![t] = StructureFailedAssessment]
                /\ UNCHANGED <<result, trace>>
    /\ UNCHANGED <<checker, op, args, prompt, message, backend_calls>>

\* thread t builds its prompt and sends its request through the shared client
ConcSendRequest(t) ==
    /\ pc[t] = "prompt"
    /\ prompt' = [prompt EXCEPT
                     ![t] = BuildAssessmentPrompt(args[t].response,
                                                  args[t].schema)]
    /\ backend_calls' = [backend_calls EXCEPT ![t] = @ + 1]
    /\ pc' = [pc EXCEPT ![t] = "backend"]
    /\ UNCHANGED <<checker, op, args, validation, message, quality, trace,
                   result>>

\* thread t's backend call ends and its assess_quality runs to its end
ConcBackendReturns(t) ==
    /\ pc[t] = "backend"
    /\ \E outcome \in ConcOutcomes :
          /\ message' = [message EXCEPT ![t] = outcome]
          /\ LET assessed == AssessOutcome(outcome)
             IN  IF assessed.raised
                 THEN /\ result' = [result EXCEPT ![t] = assessed]
                      /\ pc' = [pc EXCEPT ![t] = "raised"]
                      /\ trace' = Append(trace, Event(t, "return"))
                      /\ UNCHANGED quality
                 ELSE /\ quality' = [quality EXCEPT ![t] = assessed.val]
                      /\ pc' = [pc EXCEPT ![t] = "score"]
                      /\ UNCHANGED <<result, trace>>
    /\ UNCHANGED <<checker, op, args, validation, prompt, backend_calls>>

\* thread t computes its overall score and returns its report
ConcScore(t) ==
    /\ pc[t] = "score"
    /\ LET overall == CalculateOverallScore(validation[t], quality[t])
       IN  IF overall.raised
           THEN /\ result' = [result EXCEPT ![t] = overall]
                /\ pc' = [pc EXCEPT ![t] = "raised"]
           ELSE /\ result' = [result EXCEPT
                                 ![t] = Returned(QualityReport(
                                            validation[t], quality[t],
                                            overall.val))]
                /\ pc' = [pc EXCEPT ![t] = "done"]
    /\ trace' = Append(trace, Event(t, "return"))
    /\ UNCHANGED <<checker, op, args, validation, prompt, message, quality,
                   backend_calls>>

ConcNext ==
    \E t \in Threads :
        \/ ConcCall(t)
        \/ ConcValidate(t)
        \/ ConcSendRequest(t)
        \/ ConcBackendReturns(t)
        \/ ConcScore(t)

SpecConc == ConcInit /\ [][ConcNext]_vars

(***************************************************************************)
(* Properties.                                                             *)
(***************************************************************************)
\* the call of method m has returned
Done(m) == op = m /\ pc = "done"
\* the call of method m let an exception escape
Escaped(m) == op = m /\ pc = "raised"

\* check_response has its ValidationResult, and it says invalid
StructureInvalid ==
    /\ op = "check_response"
    /\ validation # Unset
    /\ ~validation.is_valid

\* C1: whenever structure validation fails, check_response returns a report
\* with overall_score 0 and quality.score 0 whose only quality issue is the
\* critical 'Structure validation failed', and the backend is invoked zero
\* times during the call.
C1_InvalidStructureReport ==
    StructureInvalid =>
        /\ backend_calls = 0
        /\ pc \in {"score", "done"}
        /\ pc = "done" =>
              /\ ~result.raised
              /\ result.val.validation = validation
              /\ result.val.overall_score = 0
              /\ result.val.quality.score = PyInt(0)
              /\ Len(result.val.quality.issues) = 1
              /\ result.val.quality.issues[1].severity = PyStr("critical")
              /\ result.val.quality.issues[1].description
                    = PyStr("Structure validation failed")

C1_Witness == StructureInvalid /\ pc = "done"

\* floor((30 * structure + 70 * score) / 100) in exact integer arithmetic,
\* structure being 100 or 0
ExactFloor(is_valid, score) ==
    ((IF is_valid THEN 300 ELSE 0) + 7 * score) \div 10

\* C2: for every (is_valid, quality.score) with the score an integer in
\* 0..100, _calculate_overall_score returns
\* floor(0.3 * (100 if is_valid else 0) + 0.7 * quality.score).
C2_ScoreIsFloor ==
    (/\ op = "_calculate_overall_score"
     /\ pc \in {"done", "raised"}
     /\ quality.score.k = "int"
     /\ quality.score.n \in 0..100) =>
        /\ pc = "done"
        /\ result.val = ExactFloor(validation.is_valid, quality.score.n)

\* C3: check_response never lets an exception reach its caller.
C3_CheckAlwaysReports == ~Escaped("check_response")

\* C4: the overall_score of every report check_response returns is an
\* integer in 0..100.
C4_OverallInRange ==
    Done("check_response") => result.val.overall_score \in 0..100

\* C5: assess_quality never raises to its caller; whatever the backend
\* delivers, it returns a QualityAssessment.
C5_AssessNeverRaises ==
    /\ ~Escaped("assess_quality")
    /\ Done("assess_quality") =>
          /\ ~result.raised
          /\ DOMAIN result.val
                = {"score", "issues", "explanation", "recommendations"}

C5_Witness ==
    /\ Done("assess_quality")
    /\ message.ok
    /\ message.content = <<>>

\* the assessment assess_quality came to, once the backend call has ended
Assessed == IF op = "assess_quality" THEN result.val ELSE quality
HasAssessed == message # Unset

\* C6: whenever the backend call raises, assess_quality returns the
\* backend-failure fallback: score 0, one critical issue whose description
\* holds the error's message, explanation 'Unable to complete quality
\* assessment', one recommendation; it does not raise.
C6_BackendFailureFallback ==
    (HasAssessed /\ ~message.ok) =>
        /\ ~Escaped("assess_quality")
        /\ Assessed.score = PyInt(0)
        /\ Len(Assessed.issues) = 1
        /\ Assessed.issues[1].severity = PyStr("critical")
        /\ Assessed.issues[1].description.k = "str"
        /\ Assessed.issues[1].description.x = message.exc.msg
        /\ Assessed.explanation = PyStr("Unable to complete quality assessment")
        /\ Len(Assessed.recommendations) = 1

C6_Witness ==
    /\ Done("assess_quality")
    /\ ~message.ok
    /\ message.exc.type = "APIConnectionError"

\* C7: _parse_assessment never raises to its caller.
C7_ParseNeverRaises == ~Escaped("_parse_assessment")

\* a is the parse fallback in full
IsParseFallback(a) ==
    /\ a.score = PyInt(50)
    /\ Len(a.issues) = 1
    /\ a.issues[1].severity = PyStr("warning")
    /\ a.issues[1].description.s = "Could not parse assessment: "
    /\ a.explanation
          = PyStr("Assessment completed but response format was unexpected")
    /\ Len(a.recommendations) = 1

\* the document a reply text holds once its fence is stripped
Cleaned(text) == JsonLoads(StripFence(text))
NotJson(text) == Cleaned(text).raised
HoldsObject(text) == ~NotJson(text) /\ Cleaned(text).val.kind = "object"
MissesRequiredKey(text) ==
    /\ HoldsObject(text)
    /\ \E key \in {"score", "explanation"} : ~HasKey(Cleaned(text).val.f, key)
HasIssueMissingKey(text) ==
    /\ HoldsObject(text)
    /\ HasKey(Cleaned(text).val.f, "issues")
    /\ \E i \in 1..Len(Cleaned(text).val.f["issues"].items) :
          LET entry == Cleaned(text).val.f["issues"].items[i]
          IN  /\ entry.kind = "object"
              /\ \E key \in {"severity", "description"} : ~HasKey(entry.f, key)

\* C8: for a reply that is not valid JSON, or an object missing 'score' or
\* 'explanation', or one with an issue entry missing 'severity' or
\* 'description', _parse_assessment returns the parse fallback in full.
C8_ParseFallbackInFull ==
    (/\ op = "_parse_assessment"
     /\ pc \in {"done", "raised"}
     /\ \/ NotJson(args.assessment_text)
        \/ MissesRequiredKey(args.assessment_text)
        \/ HasIssueMissingKey(args.assessment_text)) =>
        /\ pc = "done"
        /\ IsParseFallback(result.val)

\* the backend delivered a reply text
HasReplyText == HasAssessed /\ message.ok /\ message.content # <<>>
ReplyText == message.content[1]
Malformed(text) ==
    NotJson(text) \/ ~HoldsObject(text) \/ MissesRequiredKey(text)

\* a is the backend-failure fallback
IsBackendFallback(a) ==
    /\ a.score = PyInt(0)
    /\ Len(a.issues) = 1
    /\ a.issues[1].severity = PyStr("critical")
    /\ a.issues[1].description.s = "Assessment failed: "

\* C9: through assess_quality a malformed reply of a backend call that
\* succeeded yields the warning, score-50 assessment, and the critical,
\* score-0 backend-failure fallback is returned only when the backend call
\* raised.
C9_FallbacksKeptApart ==
    (HasAssessed /\ ~Escaped("assess_quality")) =>
        /\ (HasReplyText /\ Malformed(ReplyText)) => IsParseFallback(Assessed)
        /\ IsBackendFallback(Assessed) => ~message.ok

\* text is an opening fence line, a JSON object as body and a closing fence
\* line, with white space around
FencedBodies(text) ==
    {body \in UNION {Bodies(doc) : doc \in {d \in WrappedDocs : d.kind = "object"}} :
        \E open \in FenceOpen, before \in Blanks, after \in Blanks :
            text = before \o Fenced(open, body) \o after}

Score90 == JsonObject([score |-> PyInt(90), explanation |-> PyStr("ok")])

\* C10: for a reply that is a fenced JSON object, _parse_assessment returns
\* what it returns for the body alone; a fenced
\* {"score": 90, "explanation": "ok"} gives score 90 and no issues and no
\* recommendations.
C10_FenceStripped ==
    (op = "_parse_assessment" /\ pc \in {"done", "raised"}) =>
        \A body \in FencedBodies(args.assessment_text) :
            /\ result = ParseAssessment(body)
            /\ body \in Bodies(Score90) =>
                  /\ pc = "done"
                  /\ result.val.score = PyInt(90)
                  /\ result.val.issues = <<>>
                  /\ result.val.recommendations = <<>>

C10_Witness ==
    /\ Done("_parse_assessment")
    /\ args.assessment_text
          = Fenced(<<Tok("fence"), Tok("tag")>>, ManyLines(Score90))
    /\ result.val.score = PyInt(90)

\* the reply holds a JSON object with the two required keys
HoldsScoreAndExplanation(text) ==
    /\ HoldsObject(text)
    /\ HasKey(Cleaned(text).val.f, "score")
    /\ HasKey(Cleaned(text).val.f, "explanation")

\* 'issues' is absent, or a list of objects that each hold 'severity' and
\* 'description'
WellFormedIssues(doc) ==
    HasKey(doc.f, "issues") =>
        /\ doc.f["issues"].kind = "array"
        /\ \A i \in 1..Len(doc.f["issues"].items) :
              /\ doc.f["issues"].items[i].kind = "object"
              /\ HasKey(doc.f["issues"].items[i].f, "severity")
              /\ HasKey(doc.f["issues"].items[i].f, "description")

\* the issue entries of the reply, none when the key is absent
GivenIssues(doc) ==
    IF HasKey(doc.f, "issues") THEN doc.f["issues"].items ELSE <<>>

\* assessment a carries the values of the reply object doc
ParsedAsGiven(doc, a) ==
    /\ a.score = doc.f["score"]
    /\ a.explanation = doc.f["explanation"]
    /\ Len(a.issues) = Len(GivenIssues(doc))
    /\ \A i \in 1..Len(a.issues) :
          LET entry == GivenIssues(doc)[i].f
          IN  /\ a.issues[i].severity = entry["severity"]
              /\ a.issues[i].description = entry["description"]
              /\ a.issues[i].field
                    = IF HasKey(entry, "field") THEN entry["field"] ELSE PyNone
    /\ a.recommendations
          = IF HasKey(doc.f, "recommendations")
            THEN doc.f["recommendations"] ELSE <<>>

\* C11 as stated: for every reply that is a JSON object holding 'score' and
\* 'explanation', _parse_assessment returns an assessment that is not the
\* fallback and carries the reply's score, explanation, issues in order and
\* recommendations.
C11_ObjectAlwaysParsed ==
    (/\ op = "_parse_assessment"
     /\ pc \in {"done", "raised"}
     /\ HoldsScoreAndExplanation(args.assessment_text)) =>
        /\ pc = "done"
        /\ ~IsParseFallback(result.val)
        /\ ParsedAsGiven(Cleaned(args.assessment_text).val, result.val)

\* C11: for every reply that is a JSON object holding 'score' and
\* 'explanation' in which 'issues', when present, is a list of objects that
\* each hold 'severity' and 'description', _parse_assessment returns an
\* assessment that is not the fallback: score and explanation are the
\* reply's, the issues are the reply's entries in the same order (none when
\* 'issues' is absent), the recommendations are the reply's (none when
\* absent), and an entry without 'field' gives an issue with field None.
C11_WellFormedReplyParsed ==
    (/\ op = "_parse_assessment"
     /\ pc \in {"done", "raised"}
     /\ HoldsScoreAndExplanation(args.assessment_text)
     /\ WellFormedIssues(Cleaned(args.assessment_text).val)) =>
        /\ pc = "done"
        /\ ~IsParseFallback(result.val)
        /\ ParsedAsGiven(Cleaned(args.assessment_text).val, result.val)

C11_Witness ==
    /\ Done("_parse_assessment")
    /\ HoldsScoreAndExplanation(args.assessment_text)
    /\ WellFormedIssues(Cleaned(args.assessment_text).val)
    /\ Len(result.val.issues) = 2
    /\ result.val.issues[1].severity # result.val.issues[2].severity
    /\ result.val.issues[1].field = PyStr("email")
    /\ ~HasKey(GivenIssues(Cleaned(args.assessment_text).val)[2].f, "field")
    /\ result.val.issues[2].field = PyNone
    /\ result.val.recommendations # <<>>

\* C12: check_consistency raises NotImplementedError for every list of
\* responses, empty or not, and every schema: it never returns a value,
\* never runs the validator or the backend, and leaves the checker as it was.
C12_ConsistencyNotImplemented ==
    /\ [](op = "check_consistency" =>
              /\ pc # "done"
              /\ pc = "raised" => result.exc.type = "NotImplementedError"
              /\ trace = <<>>
              /\ backend_calls = 0)
    /\ [][op' = "check_consistency" => checker' = checker]_vars

C12_Witness ==
    /\ Escaped("check_consistency")
    /\ Len(args.responses) = MaxBatch
    /\ result.exc.type = "NotImplementedError"

\* C13: a check_response call invokes the backend at most once: once when
\* validation passed, never when it failed or raised; after a backend error
\* or an unparsable reply the call goes on without a second attempt.
C13_AtMostOneBackendCall ==
    op = "check_response" =>
        /\ backend_calls <= 1
        /\ (validation = Unset /\ pc \in {"done", "raised"}) => backend_calls = 0
        /\ (validation # Unset /\ pc \in {"score", "done", "raised"}) =>
              backend_calls = IF validation.is_valid THEN 1 ELSE 0

C13_Witness ==
    /\ Done("check_response")
    /\ message # Unset
    /\ ~message.ok
    /\ backend_calls = 1

\* the ValidationResult that validate_structure has returned in this call
HasValidated ==
    \/ Done("validate_structure")
    \/ op = "check_response" /\ validation # Unset
Validated == IF op = "validate_structure" THEN result.val ELSE validation

\* C14: every ValidationResult returned by validate_structure has is_valid
\* true if and only if its errors list is empty.
C14_ValidIffNoErrors ==
    HasValidated => (Validated.is_valid <=> Validated.errors = <<>>)

C14_Witness ==
    /\ Done("validate_structure")
    /\ ~result.val.is_valid
    /\ result.val.errors # <<>>

\* C15: validate_structure fails fast: for a response that violates the
\* schema, in one place or in several, is_valid is false and errors holds
\* exactly one element, made from the message of the failure the validator
\* raised; on success errors is empty; warnings is empty in both cases.
C15_FailsFast ==
    Done("validate_structure") =>
        LET found == Violations(args.response, args.schema)
        IN  /\ result.val.warnings = <<>>
            /\ IF found # <<>>
               THEN /\ ~result.val.is_valid
                    /\ result.val.errors
                          = <<PyFmt("Schema validation failed: ", found[1])>>
               ELSE /\ result.val.is_valid
                    /\ result.val.errors = <<>>

C15_Witness ==
    /\ Done("validate_structure")
    /\ Len(Violations(args.response, args.schema)) >= 2
    /\ Len(result.val.errors) = 1

\* the methods that run on a checker
CheckerMethods ==
    {"validate_structure", "assess_quality", "check_response",
     "check_consistency", "_parse_assessment", "_calculate_overall_score"}

\* C16: a missing credential is fatal at construction: with no api_key
\* argument, or an empty one, and ANTHROPIC_API_KEY unset or empty, the
\* constructor raises and no checker exists; every checker that exists holds
\* a credential, so no method runs on a checker without one.
C16_NoCheckerWithoutCredential ==
    /\ (/\ op = "__init__"
        /\ pc \in {"done", "raised"}
        /\ ~Truthy(args.api_key)
        /\ ~Truthy(args.env)) =>
           /\ pc = "raised"
           /\ result.exc.type = "ValueError"
           /\ checker = Unset
    /\ checker # Unset => Truthy(checker.api_key)
    /\ op \in CheckerMethods => checker # Unset

C16_Witness ==
    /\ Escaped("__init__")
    /\ args.api_key = PyStr("")
    /\ args.env = PyNone
    /\ checker = Unset

\* the summary holds a line with this fixed text
HasLine(lines, text) == \E i \in 1..Len(lines) : lines[i].text = text

\* the four section headers stand in the summary exactly for the non-empty
\* lists of the report, and the four fixed lines stand in it
SectionsAsLists(report, lines) ==
    /\ HasLine(lines, "Validation Errors:") <=> report.validation.errors # <<>>
    /\ HasLine(lines, "Warnings:") <=> report.validation.warnings # <<>>
    /\ HasLine(lines, "Issues Found") <=> report.quality.issues # <<>>
    /\ HasLine(lines, "Recommendations:") <=> report.quality.recommendations # <<>>
    /\ HasLine(lines, "Overall Score")
    /\ HasLine(lines, "Structure Validation")
    /\ HasLine(lines, "Quality Assessment Score")
    /\ HasLine(lines, "explanation")

\* C17: summary() writes each of the headers 'Validation Errors:',
\* 'Warnings:', 'Issues Found' and 'Recommendations:' if and only if the
\* list it stands for is non-empty, and always writes the overall score, the
\* structure pass/fail line, the quality score and the explanation.
C17_SectionsIffNonEmpty ==
    (op = "summary" /\ pc \in {"done", "raised"}) =>
        /\ pc = "done"
        /\ SectionsAsLists(args.report, result.val)

\* the weighted sum 0.3 * structure + 0.7 * score with its fraction dropped
\* toward zero, in exact arithmetic
TruncatedSum(is_valid, score) ==
    LET tenfold == 3 * (IF is_valid THEN 100 ELSE 0) + 7 * score
    IN  IF tenfold >= 0 THEN tenfold \div 10 ELSE 0 - ((0 - tenfold) \div 10)

\* C18: for every integer quality.score, negative and above 100 included,
\* _calculate_overall_score returns the weighted sum
\* 0.3 * structure + 0.7 * quality.score truncated toward zero.
C18_ScoreIsTruncation ==
    (Done("_calculate_overall_score") /\ quality.score.k = "int") =>
        result.val = TruncatedSum(validation.is_valid, quality.score.n)

\* step number i of the call comes after a step named in earlier
After(i, earlier) == \E j \in 1..(i - 1) : trace[j] \in earlier

\* C19: within one check_response call the structure is validated before a
\* prompt is built or the backend called; the backend is called only after
\* validation reported valid; the parser runs only after the backend
\* delivered a reply; the overall score is computed only after the quality
\* assessment, real or synthetic, exists.
C19_StepsInOrder ==
    op = "check_response" =>
        \A i \in 1..Len(trace) :
            /\ trace[i] \in {"prompt", "backend_call"} =>
                  /\ After(i, {"validate"})
                  /\ validation # Unset
                  /\ validation.is_valid
            /\ trace[i] = "parse" => After(i, {"backend_reply"})
            /\ trace[i] = "score" =>
                  /\ After(i, {"quality", "synthetic_quality"})
                  /\ quality # Unset

C19_Witness ==
    /\ Done("check_response")
    /\ trace = <<"validate", "prompt", "backend_call", "backend_reply",
                 "parse", "quality", "score">>

\* check_response(response, schema) run alone, with outcome as what its
\* backend call delivers
Alone(response, schema, outcome) ==
    LET checked == ValidateStructure(response, schema)
    IN  IF checked.raised THEN checked
        ELSE LET assessed == IF checked.val.is_valid
                             THEN AssessOutcome(outcome)
                             ELSE Returned(StructureFailedAssessment)
             IN  IF assessed.raised THEN assessed
                 ELSE LET overall == CalculateOverallScore(checked.val,
                                                           assessed.val)
                      IN  IF overall.raised THEN overall
                          ELSE Returned(QualityReport(checked.val,
                                                      assessed.val,
                                                      overall.val))

\* C20: under every interleaving of two check_response calls on one
\* checker, what each call returns or raises is what the call gives when
\* run alone on its response and schema with the same backend outcome, and
\* no step changes the checker's fields or the arguments of a running call.
C20_CallsDoNotInterfere ==
    /\ [](\A t \in Threads :
              pc[t] \in {"done", "raised"} =>
                  result[t] = Alone(args[t].response, args[t].schema,
                                    message[t]))
    /\ [][/\ checker' = checker
          /\ \A t \in Threads : args[t] # Unset => args'[t] = args[t]]_vars

\* t2 called after t1 and returned before it, with another report
C20_Witness ==
    /\ trace = <<Event("t1", "call"), Event("t2", "call"),
                 Event("t2", "return"), Event("t1", "return")>>
    /\ pc["t1"] = "done"
    /\ pc["t2"] = "done"
    /\ validation["t1"].is_valid
    /\ ~validation["t2"].is_valid
    /\ result["t1"].val.overall_score = 93
    /\ result["t2"].val.overall_score = 0

\* _calculate_overall_score on nothing but is_valid and an integer score:
\* every other field of the two arguments is left empty
BareScores ==
    ((0 - OverRange)..(100 + OverRange))
    \cup {q.n : q \in {r \in ReplyScores : r.k = "int"}}
OverallOf ==
    [is_valid \in BOOLEAN, n \in BareScores |->
        CalculateOverallScore(
            ValidationResult(is_valid, <<>>, <<>>),
            QualityAssessment(PyInt(n), <<>>, PyStr(""), <<>>)).val]

\* C21: in every report check_response returns, validation is the result of
\* validate_structure on the arguments, quality is the result of
\* assess_quality as it was returned when validation passed and the synthetic
\* structure-failure assessment otherwise, and overall_score is
\* _calculate_overall_score of those two, which depends on
\* validation.is_valid and quality.score alone.
C21_ReportIsItsParts ==
    Done("check_response") =>
        LET report == result.val
            checked == ValidateStructure(args.response, args.schema)
        IN  /\ ~checked.raised
            /\ report.validation = checked.val
            /\ report.quality
                  = IF checked.val.is_valid
                    THEN AssessOutcome(message).val
                    ELSE StructureFailedAssessment
            /\ report.overall_score
                  = OverallOf[report.validation.is_valid, report.quality.score.n]

C21_Witness ==
    /\ Done("check_response")
    /\ result.val.validation.is_valid
    /\ message.ok
    /\ result.val.quality.score = PyInt(150)
    /\ result.val.quality.recommendations # <<>>
    /\ result.val.overall_score = 135

\* the values the data model declares for a severity
DeclaredSeverities == {PyStr("critical"), PyStr("warning"), PyStr("info")}

\* C22: for a well-formed reply object the parser hands the backend's values
\* on unchecked: the assessment's score is the reply's 'score' also outside
\* 0..100, and every issue's severity is the reply's 'severity' also when it
\* is none of 'critical', 'warning', 'info'; nothing is clamped, coerced or
\* rejected.
C22_ValuesPassedThrough ==
    (/\ op = "_parse_assessment"
     /\ pc \in {"done", "raised"}
     /\ HoldsScoreAndExplanation(args.assessment_text)
     /\ WellFormedIssues(Cleaned(args.assessment_text).val)) =>
        LET doc == Cleaned(args.assessment_text).val
        IN  /\ pc = "done"
            /\ result.val.score = doc.f["score"]
            /\ Len(result.val.issues) = Len(GivenIssues(doc))
            /\ \A i \in 1..Len(result.val.issues) :
                  result.val.issues[i].severity
                      = GivenIssues(doc)[i].f["severity"]

C22_Witness ==
    /\ Done("_parse_assessment")
    /\ HoldsScoreAndExplanation(args.assessment_text)
    /\ result.val.score = PyInt(150)
    /\ Len(result.val.issues) = 1
    /\ result.val.issues[1].severity = PyStr("blocker")
    /\ result.val.issues[1].severity \notin DeclaredSeverities

\* the reply makes the parser take its except branch
TriggersParseFallback(text) ==
    /\ ParseAssessmentBody(text).raised
    /\ ParseAssessmentBody(text).exc.type \in ParseCaught

\* a check_response call that got past validate_structure has ended
Checked == op = "check_response" /\ pc \in {"done", "raised"} /\ validation # Unset

\* C23: for a structurally valid response check_response returns
\* overall_score 30 when the backend call fails and overall_score 65 when
\* the reply triggers the parse fallback; with overall_score 0 for an
\* invalid structure, the three degraded reports have three different
\* overall scores.
C23_DegradedScores ==
    Checked =>
        /\ ~validation.is_valid => (pc = "done" /\ result.val.overall_score = 0)
        /\ (validation.is_valid /\ ~message.ok) =>
              (pc = "done" /\ result.val.overall_score = 30)
        /\ (validation.is_valid /\ HasReplyText
            /\ TriggersParseFallback(ReplyText)) =>
              (pc = "done" /\ result.val.overall_score = 65)

C23_Witness ==
    /\ Done("check_response")
    /\ validation.is_valid
    /\ HasReplyText
    /\ ReplyText = <<Tok("prose")>>
    /\ result.val.quality.score = PyInt(50)
    /\ result.val.overall_score = 65

\* C24: summary() completes and returns its text for every report that
\* check_response returns, also when an issue of the report carries a
\* severity that is null or another non-string value of the reply.
C24_SummaryCompletes ==
    (op = "summary" /\ pc \in {"done", "raised"}) =>
        /\ pc = "done"
        /\ ~result.raised

\* a fenced document written on one line: the fences and the document share
\* the only line
OnOneLine(text) ==
    \E open \in FenceOpen, doc \in WrappedDocs :
        text = open \o OneLine(doc) \o <<Tok("fence")>>

\* an opening fence line and a document, and no closing fence after it
Unclosed(text) ==
    \E open \in FenceOpen, doc \in WrappedDocs :
        \E body \in Bodies(doc) : text = open \o <<Tok("nl")>> \o body

\* C25: when the trimmed reply begins with a fence, _parse_assessment drops
\* its first and its last line whatever the last line is: a fenced reply on
\* a single line, and a fenced reply without its closing fence, end in the
\* score-50 parse fallback and not in the assessment of the JSON body.
C25_LastLineDroppedUnchecked ==
    (/\ op = "_parse_assessment"
     /\ pc \in {"done", "raised"}
     /\ OnOneLine(args.assessment_text) \/ Unclosed(args.assessment_text)) =>
        /\ StartsWithFence(Strip(args.assessment_text))
        /\ pc = "done"
        /\ IsParseFallback(result.val)
        /\ result.val.score = PyInt(50)

C25_Witness ==
    /\ Done("_parse_assessment")
    /\ args.assessment_text
          = <<Tok("fence"), Tok("tag"), Tok("nl")>> \o ManyLines(Score90)
    /\ ParseAssessment(ManyLines(Score90)).val.score = PyInt(90)
    /\ IsParseFallback(result.val)
=============================================================================
